---- MODULE Spec2Model ----
(***************************************************************************)
(* A model of html5ever's sanitizing HTML serializer                       *)
(* (src/html5ever/src/serialize/mod.rs): the HtmlSerializer with its       *)
(* ElemInfo stack, the six Serializer handlers, the escaping functions and *)
(* the tag allowlist.                                                      *)
(*                                                                         *)
(* Text is a sequence of characters, each a one-character string; the      *)
(* character U+00A0 is written NBSP.  A LocalName is the sequence of its   *)
(* characters, so as_bytes() is the sequence itself.  A QualName is a      *)
(* record [ns, local].  Option<LocalName> is a record [some, val].         *)
(***************************************************************************)
EXTENDS Integers, Sequences, FiniteSets, TLC

VARIABLES
    opts,     \* HtmlSerializer.opts : SerializeOpts
    stack,    \* HtmlSerializer.stack : Vec<ElemInfo>
    writer,   \* HtmlSerializer.writer : the bytes the sink has accepted
    status,   \* "ok", "panic" once a handler has panicked, "err" once one returned Err
    ideal,    \* the bytes a sink that never fails would hold for the same events
    open,     \* the traversal driver's unmatched start_elem events, innermost last
    trace,    \* the events the driver has issued so far, in order
    call      \* the last handler call: its event, what it wrote, what it found

vars == <<opts, stack, writer, status, ideal, open, trace, call>>

-----------------------------------------------------------------------------
(* Bounds of the model *)

MaxEvents == 3
MaxTextLen == 4
MaxAttrs == 2

-----------------------------------------------------------------------------
(* Characters and names *)

NBSP == "nbsp"

None == [some |-> FALSE, val |-> <<>>]
Some(x) == [some |-> TRUE, val |-> x]

QName(ns, local) == [ns |-> ns, local |-> local]

(* Local names used by the driver of the model *)
n_p == <<"p">>
n_a == <<"a">>
n_br == <<"b", "r">>
n_hr == <<"h", "r">>
n_div == <<"d", "i", "v">>
n_img == <<"i", "m", "g">>
n_script == <<"s", "c", "r", "i", "p", "t">>
n_style == <<"s", "t", "y", "l", "e">>
n_noscript == <<"n", "o", "s", "c", "r", "i", "p", "t">>

-----------------------------------------------------------------------------
(* The fixed tag sets *)

ALLOWED_TAGS ==
    { <<"p">>, <<"b", "r">>, <<"s", "t", "r", "o", "n", "g">>, <<"e", "m">>,
      <<"d", "e", "l">>, <<"b", "l", "o", "c", "k", "q", "u", "o", "t", "e">>,
      <<"c", "o", "d", "e">>, <<"p", "r", "e">>,
      <<"h", "1">>, <<"h", "2">>, <<"h", "3">>, <<"h", "4">>, <<"h", "5">>, <<"h", "6">>,
      <<"a">>, <<"u", "l">>, <<"o", "l">>, <<"l", "i">>, <<"h", "r">> }

VoidElements ==
    { <<"a", "r", "e", "a">>, <<"b", "a", "s", "e">>,
      <<"b", "a", "s", "e", "f", "o", "n", "t">>, <<"b", "g", "s", "o", "u", "n", "d">>,
      <<"b", "r">>, <<"c", "o", "l">>, <<"e", "m", "b", "e", "d">>,
      <<"f", "r", "a", "m", "e">>, <<"h", "r">>, <<"i", "m", "g">>,
      <<"i", "n", "p", "u", "t">>, <<"k", "e", "y", "g", "e", "n">>,
      <<"l", "i", "n", "k">>, <<"m", "e", "t", "a">>, <<"p", "a", "r", "a", "m">>,
      <<"s", "o", "u", "r", "c", "e">>, <<"t", "r", "a", "c", "k">>, <<"w", "b", "r">> }

RawTextElements ==
    { <<"s", "t", "y", "l", "e">>, <<"s", "c", "r", "i", "p", "t">>, <<"x", "m", "p">>,
      <<"i", "f", "r", "a", "m", "e">>, <<"n", "o", "e", "m", "b", "e", "d">>,
      <<"n", "o", "f", "r", "a", "m", "e", "s">>,
      <<"p", "l", "a", "i", "n", "t", "e", "x", "t">> }

-----------------------------------------------------------------------------
(* Pure functions *)

(* tagname: the local name, whatever the namespace (the warning has no effect) *)
tagname(name) == name.local

(* One character of escape_text's loop *)
escape_text_char(c) ==
    CASE c = "&"  -> <<"&", "a", "m", "p", ";">>
      [] c = NBSP -> <<"&", "n", "b", "s", "p", ";">>
      [] c = "\"" -> <<"&", "q", "u", "o", "t", ";">>
      [] c = "<"  -> <<"&", "l", "t", ";">>
      [] c = ">"  -> <<"&", "g", "t", ";">>
      [] OTHER    -> <<c>>

RECURSIVE escape_text_loop(_)
escape_text_loop(text) ==
    IF text = <<>> THEN <<>>
    ELSE escape_text_char(Head(text)) \o escape_text_loop(Tail(text))

(* A variant that maps the characters as write_escaped does in text mode *)
RECURSIVE escape_text_as_text_mode(_, _)
escape_text_as_text_mode(text, should_escape) ==
    IF ~should_escape \/ text = <<>> THEN text
    ELSE (IF Head(text) = "\"" THEN <<"\"">> ELSE escape_text_char(Head(text)))
            \o escape_text_as_text_mode(Tail(text), should_escape)

(* escape_text(text, should_escape) -> String *)
escape_text(text, should_escape) ==
    IF ~should_escape THEN text ELSE escape_text_loop(text)

(* A variant that escapes the quote in text mode too *)
write_escaped_char_quot_always(c, attr_mode) ==
    CASE c = "&"                  -> <<"&", "a", "m", "p", ";">>
      [] c = NBSP                 -> <<"&", "n", "b", "s", "p", ";">>
      [] c = "\""                 -> <<"&", "q", "u", "o", "t", ";">>
      [] c = "<" /\ ~attr_mode    -> <<"&", "l", "t", ";">>
      [] c = ">" /\ ~attr_mode    -> <<"&", "g", "t", ";">>
      [] OTHER                    -> <<c>>

(* A variant that passes "&" through unchanged *)
write_escaped_char_raw_amp(c, attr_mode) ==
    CASE c = NBSP                 -> <<"&", "n", "b", "s", "p", ";">>
      [] c = "\"" /\ attr_mode    -> <<"&", "q", "u", "o", "t", ";">>
      [] c = "<" /\ ~attr_mode    -> <<"&", "l", "t", ";">>
      [] c = ">" /\ ~attr_mode    -> <<"&", "g", "t", ";">>
      [] OTHER                    -> <<c>>

(* One character of write_escaped's loop: the bytes of its one sink write *)
write_escaped_char(c, attr_mode) ==
    CASE c = "&"                  -> <<"&", "a", "m", "p", ";">>
      [] c = NBSP                 -> <<"&", "n", "b", "s", "p", ";">>
      [] c = "\"" /\ attr_mode    -> <<"&", "q", "u", "o", "t", ";">>
      [] c = "<" /\ ~attr_mode    -> <<"&", "l", "t", ";">>
      [] c = ">" /\ ~attr_mode    -> <<"&", "g", "t", ";">>
      [] OTHER                    -> <<c>>

(* write_escaped: the sink writes it issues, one per character, in order *)
RECURSIVE write_escaped(_, _)
write_escaped(text, attr_mode) ==
    IF text = <<>> THEN <<>>
    ELSE <<write_escaped_char(Head(text), attr_mode)>>
             \o write_escaped(Tail(text), attr_mode)

(* The bytes of a sequence of sink writes, all accepted *)
RECURSIVE Bytes(_)
Bytes(writes) ==
    IF writes = <<>> THEN <<>> ELSE Head(writes) \o Bytes(Tail(writes))

-----------------------------------------------------------------------------
(* ElemInfo and the constructor *)

ElemInfo(html_name, ignore_children, processed_first_child) ==
    [html_name |-> html_name,
     ignore_children |-> ignore_children,
     processed_first_child |-> processed_first_child]

(* #[derive(Default)] for ElemInfo *)
DefaultElemInfo == ElemInfo(None, FALSE, FALSE)

IncludeNode == [kind |-> "IncludeNode", root |-> None]
ChildrenOnly(root) == [kind |-> "ChildrenOnly", root |-> root]

(* A variant that never names the seed entry *)
new_html_name_none(traversal_scope) == None

(* HtmlSerializer::new: the html_name of the seed entry *)
new_html_name(traversal_scope) ==
    IF traversal_scope.kind = "IncludeNode" \/ ~traversal_scope.root.some
    THEN None
    ELSE Some(tagname(traversal_scope.root.val))

(* HtmlSerializer::new: the initial stack *)
new_stack(o) == <<ElemInfo(new_html_name(o.traversal_scope), FALSE, FALSE)>>

(* A variant that always creates the default parent *)
parent_panics_never(stk) == FALSE

(* A variant that panics whatever create_missing_parent says *)
parent_panics_always(stk) == Len(stk) = 0

(* HtmlSerializer::parent: does it panic on this stack *)
parent_panics(stk) == Len(stk) = 0 /\ ~opts.create_missing_parent

(* HtmlSerializer::parent: the stack it leaves when it does not panic *)
parent_stack(stk) == IF Len(stk) = 0 THEN <<DefaultElemInfo>> ELSE stk

Top(stk) == stk[Len(stk)]
Pop(stk) == SubSeq(stk, 1, Len(stk) - 1)

-----------------------------------------------------------------------------
(* What the handlers write: the sequence of sink writes of one call *)

(* start_elem: the html_name of the pushed entry *)
elem_html_name(name) == IF name.ns = "html" THEN Some(name.local) ELSE None

(* A variant that literalizes every element outside the HTML namespace *)
tag_escape_by_namespace(name) ==
    name.ns # "html" \/ tagname(name) \notin ALLOWED_TAGS

(* start_elem and end_elem: is the tag literalized *)
tag_escape(name) == tagname(name) \notin ALLOWED_TAGS

(* start_elem: the prefix written for an attribute's namespace *)
attr_prefix_writes(name) ==
    CASE name.ns = ""      -> <<>>
      [] name.ns = "xml"   -> << <<"x", "m", "l", ":">> >>
      [] name.ns = "xmlns" ->
            IF name.local # <<"x", "m", "l", "n", "s">>
            THEN << <<"x", "m", "l", "n", "s", ":">> >>
            ELSE <<>>
      [] name.ns = "xlink" -> << <<"x", "l", "i", "n", "k", ":">> >>
      [] OTHER             ->
            << <<"u", "n", "k", "n", "o", "w", "n", "_",
                 "n", "a", "m", "e", "s", "p", "a", "c", "e", ":">> >>

(* start_elem: the body of the loop over the attributes *)
attr_writes(attr, escape) ==
    << <<" ">> >>
    \o attr_prefix_writes(attr.name)
    \o << attr.name.local, escape_text(<<"=", "\"">>, escape) >>
    \o write_escaped(attr.value, TRUE)
    \o << escape_text(<<"\"">>, escape) >>

(* A variant that skips an attribute whose name comes again later *)
RECURSIVE attrs_writes_dedup(_, _)
attrs_writes_dedup(attrs, escape) ==
    IF attrs = <<>> THEN <<>>
    ELSE IF \E i \in 2..Len(attrs) : attrs[i].name = Head(attrs).name
    THEN attrs_writes_dedup(Tail(attrs), escape)
    ELSE attr_writes(Head(attrs), escape) \o attrs_writes_dedup(Tail(attrs), escape)

RECURSIVE attrs_writes(_, _)
attrs_writes(attrs, escape) ==
    IF attrs = <<>> THEN <<>>
    ELSE attr_writes(Head(attrs), escape) \o attrs_writes(Tail(attrs), escape)

(* start_elem, when the parent does not ignore its children *)
start_elem_writes(name, attrs) ==
    LET tag == tagname(name)
        escape == tag_escape(name)
    IN  << escape_text(<<"<">>, escape), tag >>
        \o attrs_writes(attrs, escape)
        \o << escape_text(<<">">>, escape) >>

(* A variant that leaves out the namespace test *)
elem_ignore_children_any_namespace(name) == name.local \in VoidElements

(* start_elem: the ignore_children of the pushed entry *)
elem_ignore_children(name) == name.ns = "html" /\ name.local \in VoidElements

(* A variant that never literalizes the end tag *)
end_elem_writes_unescaped(name) ==
    << <<"<", "/">>, tagname(name), <<">">> >>

(* end_elem, when the popped entry does not ignore its children *)
end_elem_writes(name) ==
    LET tag == tagname(name)
        escape == tag_escape(name)
    IN  << escape_text(<<"<", "/">>, escape), tag, escape_text(<<">">>, escape) >>

(* A variant that tests scripting_enabled without the negation *)
text_escape_noscript_inverted(info) ==
    CASE info.html_name.some /\ info.html_name.val \in RawTextElements -> FALSE
      [] info.html_name.some /\ info.html_name.val = <<"n", "o", "s", "c", "r", "i", "p", "t">>
            -> opts.scripting_enabled
      [] OTHER -> TRUE

(* write_text: does the text go through write_escaped *)
text_escape(info) ==
    CASE info.html_name.some /\ info.html_name.val \in RawTextElements -> FALSE
      [] info.html_name.some /\ info.html_name.val = <<"n", "o", "s", "c", "r", "i", "p", "t">>
            -> ~opts.scripting_enabled
      [] OTHER -> TRUE

write_text_writes(info, text) ==
    IF text_escape(info) THEN write_escaped(text, FALSE) ELSE <<text>>

write_comment_writes(text) == << <<"<", "!", "-", "-">>, text, <<"-", "-", ">">> >>

write_doctype_writes(name) ==
    << <<"<", "!", "D", "O", "C", "T", "Y", "P", "E", " ">>, name, <<">">> >>

write_processing_instruction_writes(target, data) ==
    << <<"<", "?">>, target, <<" ">>, data, <<">">> >>

-----------------------------------------------------------------------------
(* The inputs the traversal driver draws from *)

(* Elements: allowed, void, disallowed, raw-text and noscript names in the HTML
   namespace; a void name and a raw-text name outside it *)
ElemNames ==
    { QName("html", n_p), QName("html", n_br), QName("html", n_div),
      QName("html", n_script), QName("html", n_noscript),
      QName("other", n_br), QName("svg", n_script) }

(* Names given to an end_elem that closes nothing the driver has open *)
EndNames ==
    { QName("html", n_p), QName("html", n_br), QName("html", n_div),
      QName("svg", n_script) }

Attr(ns, local, value) == [name |-> QName(ns, local), value |-> value]

(* class="a", and an xlink:href whose value holds a quote, "<" and "&" *)
ClassA == Attr("", <<"c", "l", "a", "s", "s">>, <<"a">>)
XlinkHref == Attr("xlink", <<"h", "r", "e", "f">>, <<"\"", "<", "&">>)
AttrLists == { <<ClassA>>, <<XlinkHref>> }

(* The arguments of start_elem: every element without attributes; a
   disallowed, an allowed and a foreign element with each attribute list *)
StartInput(name, attrs) == [name |-> name, attrs |-> attrs]
StartInputs ==
    { StartInput(name, <<>>) : name \in ElemNames }
    \cup { StartInput(name, attrs) :
              name \in { QName("html", n_div), QName("html", n_p),
                         QName("other", n_br) },
              attrs \in AttrLists }

Texts == { <<"h", "i">>, <<"<", "b", ">">> }
CommentTexts == { <<"c">> }
DoctypeNames == { <<"h", "t", "m", "l">> }
PITargets == { <<"x">> }
PIData == { <<"y">> }

Scopes ==
    { IncludeNode, ChildrenOnly(None),
      ChildrenOnly(Some(QName("html", n_script))),
      ChildrenOnly(Some(QName("svg", n_script))) }

Options ==
    [scripting_enabled : BOOLEAN, traversal_scope : Scopes,
     create_missing_parent : BOOLEAN]

-----------------------------------------------------------------------------
(* What the driver and the sink observe: the driver's open elements, the  *)
(* events issued so far and the record of the last handler call.          *)

NoName == QName("", <<>>)

(* An element the driver has open: its name and attributes, what its
   start_elem wrote, the stack depth before that start_elem, and whether
   the entry on top of the stack was suppressed then *)
Opened(name, attrs, out, depth, suppressed) ==
    [some |-> TRUE, name |-> name, attrs |-> attrs, out |-> out,
     depth |-> depth, suppressed |-> suppressed]
NoOpen ==
    [some |-> FALSE, name |-> NoName, attrs |-> <<>>, out |-> <<>>,
     depth |-> 0, suppressed |-> FALSE]

Event(op, name, attrs, text, data) ==
    [op |-> op, name |-> name, attrs |-> attrs, text |-> text, data |-> data]

EvStart(name, attrs) == Event("start_elem", name, attrs, <<>>, <<>>)
EvEnd(name) == Event("end_elem", name, <<>>, <<>>, <<>>)
EvText(text) == Event("write_text", NoName, <<>>, text, <<>>)
EvComment(text) == Event("write_comment", NoName, <<>>, text, <<>>)
EvDoctype(name) == Event("write_doctype", NoName, <<>>, name, <<>>)
EvPI(target, data) ==
    Event("write_processing_instruction", NoName, <<>>, target, data)

(* The last call: its event, the bytes it wrote, the stack it found, the open
   element it closed (end_elem), and how it returned *)
Call(ev, out, before, matched, result) ==
    [op |-> ev.op, name |-> ev.name, attrs |-> ev.attrs, text |-> ev.text,
     data |-> ev.data, out |-> out, before |-> before, matched |-> matched,
     result |-> result]

Matched == IF open = <<>> THEN NoOpen ELSE Top(open)
PopOpen == IF open = <<>> THEN open ELSE Pop(open)

-----------------------------------------------------------------------------
(* The stack and the sink writes of start_elem and end_elem *)

(* A variant whose early return comes before the push *)
start_elem_stack_return_before_push(stk, name) ==
    IF Top(stk).ignore_children
    THEN stk
    ELSE Append([stk EXCEPT ![Len(stk)].processed_first_child = TRUE],
                ElemInfo(elem_html_name(name), elem_ignore_children(name), FALSE))

(* A variant whose suppressed child gets the flag of its own tag *)
start_elem_stack_own_flag(stk, name) ==
    Append([stk EXCEPT ![Len(stk)].processed_first_child = TRUE],
           ElemInfo(elem_html_name(name), elem_ignore_children(name), FALSE))

(* start_elem: the stack it leaves, given the stack parent() left *)
start_elem_stack(stk, name) ==
    IF Top(stk).ignore_children
    THEN Append(stk, ElemInfo(elem_html_name(name), TRUE, FALSE))
    ELSE Append([stk EXCEPT ![Len(stk)].processed_first_child = TRUE],
                ElemInfo(elem_html_name(name), elem_ignore_children(name), FALSE))

(* start_elem: its sink writes, given the stack parent() left *)
start_elem_out(stk, name, attrs) ==
    IF Top(stk).ignore_children THEN <<>> ELSE start_elem_writes(name, attrs)

(* end_elem: stack.pop() finds nothing and no default is created *)
end_elem_panics(stk) == Len(stk) = 0 /\ ~opts.create_missing_parent

(* end_elem: the popped entry, or the default one *)
end_elem_info(stk) == IF Len(stk) = 0 THEN DefaultElemInfo ELSE Top(stk)

(* end_elem: the stack after stack.pop() *)
end_elem_stack(stk) == IF Len(stk) = 0 THEN stk ELSE Pop(stk)

(* end_elem: its sink writes *)
end_elem_out(info, name) ==
    IF info.ignore_children THEN <<>> ELSE end_elem_writes(name)

-----------------------------------------------------------------------------
(* The state machine *)

Init ==
    /\ opts \in Options
    /\ stack = new_stack(opts)
    /\ writer = <<>>
    /\ status = "ok"
    /\ ideal = <<>>
    /\ open = <<>>
    /\ trace = <<>>
    /\ call = Call(Event("new", NoName, <<>>, <<>>, <<>>), <<>>, <<>>, NoOpen, "ok")

CanCall == status = "ok" /\ Len(trace) < MaxEvents

(* A handler panics: the run is aborted, nothing is written *)
Panic(ev) ==
    /\ status' = "panic"
    /\ call' = Call(ev, <<>>, stack, Matched, "panic")
    /\ trace' = Append(trace, ev)
    /\ UNCHANGED <<opts, stack, writer, ideal, open>>

(* A handler returns Ok(()) *)
Return(ev, stk, out, opn, matched) ==
    /\ stack' = stk
    /\ writer' = writer \o out
    /\ ideal' = ideal \o out
    /\ open' = opn
    /\ call' = Call(ev, out, stack, matched, "ok")
    /\ trace' = Append(trace, ev)
    /\ UNCHANGED <<opts, status>>

(* A variant that goes on to the later writes after the failed one *)
failing_out_continue(writes, k, n) ==
    Bytes(SubSeq(writes, 1, k - 1)) \o SubSeq(writes[k], 1, n)
        \o Bytes(SubSeq(writes, k + 1, Len(writes)))

(* try!: the bytes the sink accepts from a call whose k-th write fails after
   n bytes of it; the handler returns at once *)
failing_out(writes, k, n) ==
    Bytes(SubSeq(writes, 1, k - 1)) \o SubSeq(writes[k], 1, n)

(* A handler returns Err: one of its writes fails, having accepted fewer bytes
   than it was given; stk is the stack as the handler left it before writing *)
Fail(ev, stk, writes, opn, matched) ==
    \E k \in 1..Len(writes) : \E n \in 0..(Len(writes[k]) - 1) :
        /\ stack' = stk
        /\ writer' = writer \o failing_out(writes, k, n)
        /\ ideal' = ideal \o Bytes(writes)
        /\ status' = "err"
        /\ open' = opn
        /\ call' = Call(ev, failing_out(writes, k, n), stack, matched, "err")
        /\ trace' = Append(trace, ev)
        /\ UNCHANGED opts

start_elem(name, attrs) ==
    /\ CanCall
    /\ IF parent_panics(stack)
       THEN Panic(EvStart(name, attrs))
       ELSE LET stk == parent_stack(stack)
                out == Bytes(start_elem_out(stk, name, attrs))
                opn == Append(open, Opened(name, attrs, out, Len(stack),
                                           Top(stk).ignore_children))
            IN  Return(EvStart(name, attrs), start_elem_stack(stk, name), out,
                       opn, NoOpen)

end_elem(name) ==
    /\ CanCall
    /\ IF end_elem_panics(stack)
       THEN Panic(EvEnd(name))
       ELSE LET out == Bytes(end_elem_out(end_elem_info(stack), name))
            IN  Return(EvEnd(name), end_elem_stack(stack), out, PopOpen, Matched)

write_text(text) ==
    /\ CanCall
    /\ IF parent_panics(stack)
       THEN Panic(EvText(text))
       ELSE LET stk == parent_stack(stack)
                out == Bytes(write_text_writes(Top(stk), text))
            IN  Return(EvText(text), stk, out, open, NoOpen)

write_comment(text) ==
    /\ CanCall
    /\ Return(EvComment(text), stack, Bytes(write_comment_writes(text)), open, NoOpen)

write_doctype(name) ==
    /\ CanCall
    /\ Return(EvDoctype(name), stack, Bytes(write_doctype_writes(name)), open, NoOpen)

write_processing_instruction(target, data) ==
    /\ CanCall
    /\ Return(EvPI(target, data), stack,
              Bytes(write_processing_instruction_writes(target, data)), open, NoOpen)

(* Any sequence of events, balanced or not *)
Next ==
    \/ \E input \in StartInputs : start_elem(input.name, input.attrs)
    \/ \E name \in EndNames : end_elem(name)
    \/ \E text \in Texts : write_text(text)
    \/ \E text \in CommentTexts : write_comment(text)
    \/ \E name \in DoctypeNames : write_doctype(name)
    \/ \E target \in PITargets, data \in PIData :
            write_processing_instruction(target, data)

Spec == Init /\ [][Next]_vars

(* Well-formed sequences: every end_elem closes the innermost open element *)
NextBalanced ==
    \/ \E input \in StartInputs : start_elem(input.name, input.attrs)
    \/ open # <<>> /\ end_elem(Top(open).name)
    \/ \E text \in Texts : write_text(text)
    \/ \E text \in CommentTexts : write_comment(text)
    \/ \E name \in DoctypeNames : write_doctype(name)
    \/ \E target \in PITargets, data \in PIData :
            write_processing_instruction(target, data)

SpecBalanced == Init /\ [][NextBalanced]_vars

-----------------------------------------------------------------------------
(* A sink that may fail on any write *)

start_elem_fails(name, attrs) ==
    /\ CanCall
    /\ ~parent_panics(stack)
    /\ LET stk == parent_stack(stack)
       IN  Fail(EvStart(name, attrs), stk, start_elem_out(stk, name, attrs),
                open, NoOpen)

end_elem_fails(name) ==
    /\ CanCall
    /\ ~end_elem_panics(stack)
    /\ Fail(EvEnd(name), end_elem_stack(stack),
            end_elem_out(end_elem_info(stack), name), PopOpen, Matched)

write_text_fails(text) ==
    /\ CanCall
    /\ ~parent_panics(stack)
    /\ LET stk == parent_stack(stack)
       IN  Fail(EvText(text), stk, write_text_writes(Top(stk), text), open, NoOpen)

write_comment_fails(text) ==
    /\ CanCall
    /\ Fail(EvComment(text), stack, write_comment_writes(text), open, NoOpen)

write_doctype_fails(name) ==
    /\ CanCall
    /\ Fail(EvDoctype(name), stack, write_doctype_writes(name), open, NoOpen)

write_processing_instruction_fails(target, data) ==
    /\ CanCall
    /\ Fail(EvPI(target, data), stack,
            write_processing_instruction_writes(target, data), open, NoOpen)

(* The elements of the runs with a failing sink: a disallowed element with an
   attribute, a void element and a raw-text element *)
FailStartInputs ==
    { StartInput(QName("html", n_div), <<ClassA>>),
      StartInput(QName("html", n_br), <<>>),
      StartInput(QName("html", n_script), <<>>) }

NextFailing ==
    \/ \E input \in FailStartInputs : start_elem(input.name, input.attrs)
    \/ \E input \in FailStartInputs : start_elem_fails(input.name, input.attrs)
    \/ open # <<>> /\ end_elem(Top(open).name)
    \/ open # <<>> /\ end_elem_fails(Top(open).name)
    \/ \E text \in Texts : write_text(text)
    \/ \E text \in Texts : write_text_fails(text)
    \/ \E text \in CommentTexts : write_comment(text)
    \/ \E text \in CommentTexts : write_comment_fails(text)
    \/ \E name \in DoctypeNames : write_doctype(name)
    \/ \E name \in DoctypeNames : write_doctype_fails(name)
    \/ \E target \in PITargets, data \in PIData :
            write_processing_instruction(target, data)
    \/ \E target \in PITargets, data \in PIData :
            write_processing_instruction_fails(target, data)

SpecFailing == Init /\ [][NextFailing]_vars

-----------------------------------------------------------------------------
(* One call on a new serializer with the default options, its text, attribute
   value or attribute list drawn from all those of a bounded size *)

(* SerializeOpts::default() *)
DefaultOpts ==
    [scripting_enabled |-> TRUE, traversal_scope |-> ChildrenOnly(None),
     create_missing_parent |-> FALSE]

InitDefault ==
    /\ opts = DefaultOpts
    /\ stack = new_stack(opts)
    /\ writer = <<>>
    /\ status = "ok"
    /\ ideal = <<>>
    /\ open = <<>>
    /\ trace = <<>>
    /\ call = Call(Event("new", NoName, <<>>, <<>>, <<>>), <<>>, <<>>, NoOpen, "ok")

(* The characters write_escaped tells apart, and those of its entities *)
EscAlphabet == {"&", "<", ">", "\"", NBSP, ";", "l", "t", "a"}

SeqsUpTo(S, n) == UNION { [1..k -> S] : k \in 0..n }

EscTexts == SeqsUpTo(EscAlphabet, MaxTextLen)

(* An attribute of each kind of namespace start_elem tells apart *)
AttrChoices ==
    { ClassA, XlinkHref,
      Attr("xml", <<"l", "a", "n", "g">>, <<"a">>),
      Attr("xmlns", <<"x", "m", "l", "n", "s">>, <<"a">>),
      Attr("xmlns", <<"x", "l", "i", "n", "k">>, <<"a">>),
      Attr("other", <<"i", "d">>, <<"a">>) }

AttrSeqs == SeqsUpTo(AttrChoices, MaxAttrs)

OneCallNames == { QName("html", n_div), QName("html", n_p) }

NextOneCall ==
    \/ trace = <<>> /\ \E text \in EscTexts : write_text(text)
    \/ /\ trace = <<>>
       /\ \E name \in OneCallNames, value \in EscTexts :
              start_elem(name, <<Attr("", <<"c", "l", "a", "s", "s">>, value)>>)
    \/ trace = <<>> /\ \E name \in OneCallNames, attrs \in AttrSeqs :
                          start_elem(name, attrs)

SpecOneCall == InitDefault /\ [][NextOneCall]_vars

-----------------------------------------------------------------------------
(* Properties *)

StartsWith(s, prefix) ==
    Len(s) >= Len(prefix) /\ SubSeq(s, 1, Len(prefix)) = prefix
EndsWith(s, suffix) ==
    Len(s) >= Len(suffix) /\ SubSeq(s, Len(s) - Len(suffix) + 1, Len(s)) = suffix

EntLt == <<"&", "l", "t", ";">>
EntGt == <<"&", "g", "t", ";">>
EntQuot == <<"&", "q", "u", "o", "t", ";">>

(* The last call returned normally *)
Returned(op) == call.op = op /\ call.result = "ok"

(* The last call found a suppressed entry on top of the stack *)
FoundSuppressed == call.before # <<>> /\ Top(call.before).ignore_children

(* C1: a start_elem or end_elem that is not suppressed literalizes its tag
   delimiters ("<" as "&lt;", ">" as "&gt;", "</" as "&lt;/") if and only if
   the local name is not one of the 19 allowlisted names, whatever the
   attributes, the namespace and the entries of the stack. *)
C1_LiteralizedIffNotAllowed ==
    LET allowed == call.name.local \in ALLOWED_TAGS
        lt == IF allowed THEN <<"<">> ELSE EntLt
        gt == IF allowed THEN <<">">> ELSE EntGt
    IN  /\ Cardinality(ALLOWED_TAGS) = 19
        /\ (Returned("start_elem") /\ ~FoundSuppressed) =>
              /\ StartsWith(call.out, lt \o call.name.local)
              /\ EndsWith(call.out, gt)
        /\ (Returned("end_elem") /\ ~FoundSuppressed) =>
              call.out = lt \o <<"/">> \o call.name.local \o gt

(* An allowlisted element with attributes, in a foreign namespace, is written
   as markup inside an ancestor whose tags were literalized *)
C1_Witness ==
    /\ Returned("start_elem")
    /\ call.name = QName("other", n_br)
    /\ call.attrs # <<>>
    /\ StartsWith(call.out, <<"<", "b", "r", " ">>)
    /\ Len(open) = 2
    /\ StartsWith(open[1].out, EntLt)

(* C2: in a well-formed sequence write_text is decided by the top entry of
   the stack, which is the entry of the innermost open element, or the seed
   entry when none is open: the text is written verbatim if that entry names
   a raw-text element, or noscript with scripting enabled, and is escaped in
   text mode otherwise. *)
C2_TextDecidedByTopEntry ==
    Returned("write_text") =>
        LET top == Top(call.before).html_name
            inner == IF open = <<>> THEN stack[1].html_name
                     ELSE IF Top(open).name.ns = "html"
                          THEN Some(Top(open).name.local) ELSE None
            raw == /\ inner.some
                   /\ \/ inner.val \in RawTextElements
                      \/ inner.val = n_noscript /\ opts.scripting_enabled
        IN  /\ top = inner
            /\ call.out = IF raw THEN call.text
                          ELSE Bytes(write_escaped(call.text, FALSE))

(* Under a raw-text root, text written after a child was opened and closed
   is again verbatim *)
C2_Witness ==
    /\ trace = << EvStart(QName("html", n_p), <<>>), EvEnd(QName("html", n_p)),
                  EvText(<<"<", "b", ">">>) >>
    /\ call.out = <<"<", "b", ">">>
    /\ stack[1].html_name = Some(n_script)

(* C3: a start_elem that is not suppressed writes its start tag; the
   end_elem that closes it writes nothing, whatever its name, when the
   element is an HTML-namespace void element, and writes an end tag for any
   other element. *)
C3_VoidHasNoEndTag ==
    /\ (Returned("start_elem") /\ ~FoundSuppressed) => call.out # <<>>
    /\ (Returned("end_elem") /\ call.matched.some /\ ~call.matched.suppressed) =>
          IF call.matched.name.ns = "html" /\ call.matched.name.local \in VoidElements
          THEN call.out = <<>>
          ELSE call.out \in
                  { <<"<", "/">> \o call.name.local \o <<">">>,
                    EntLt \o <<"/">> \o call.name.local \o EntGt }

(* An HTML br is closed by an end_elem given another name: nothing is written *)
C3_Witness ==
    /\ Returned("end_elem")
    /\ call.matched.name = QName("html", n_br)
    /\ call.matched.out = <<"<", "b", "r", ">">>
    /\ call.name = QName("html", n_div)
    /\ call.out = <<>>

(* C4: in a well-formed sequence no handler panics, the stack depth is one
   more than the number of open elements, and after an end_elem it is the
   depth found by the matching start_elem. *)
C4_StackBalance ==
    /\ status = "ok"
    /\ Len(stack) = 1 + Len(open)
    /\ call.op = "end_elem" =>
          /\ call.matched.some
          /\ Len(stack) = call.matched.depth

(* A suppressed element nested in a void element has been closed *)
C4_Witness ==
    /\ Returned("end_elem")
    /\ call.matched.suppressed
    /\ call.matched.depth = 2
    /\ Len(stack) = 2

(* C5: a start_elem that finds a suppressed entry on top of the stack pushes
   a suppressed entry, whatever the element, and writes nothing; the
   end_elem that closes such an element writes nothing. *)
C5_SuppressionInherited ==
    /\ (Returned("start_elem") /\ FoundSuppressed) =>
          /\ call.out = <<>>
          /\ Len(stack) = Len(call.before) + 1
          /\ Top(stack).ignore_children
    /\ (Returned("end_elem") /\ call.matched.some /\ call.matched.suppressed) =>
          call.out = <<>>

(* A div opened two levels below a br is suppressed: only <br> was written *)
C5_Witness ==
    /\ Returned("start_elem")
    /\ Len(open) = 3
    /\ open[1].name = QName("html", n_br)
    /\ open[2].suppressed
    /\ call.name = QName("html", n_div)
    /\ Top(stack).ignore_children
    /\ writer = <<"<", "b", "r", ">">>

(* C6: while the entry on top of the stack is suppressed no handler writes a
   byte to the sink, write_text, write_comment, write_doctype and
   write_processing_instruction included. *)
C6_NoOutputWhenSuppressed ==
    (call.result = "ok" /\ FoundSuppressed) => call.out = <<>>

(* The attributes of a literalized start tag as the claim spells them: a
   space, the name, eq, the value escaped in attribute mode, quote *)
RECURSIVE LiteralAttrs(_, _, _)
LiteralAttrs(attrs, eq, quote) ==
    IF attrs = <<>> THEN <<>>
    ELSE <<" ">> \o Bytes(attr_prefix_writes(Head(attrs).name))
            \o Head(attrs).name.local \o eq
            \o Bytes(write_escaped(Head(attrs).value, TRUE)) \o quote
            \o LiteralAttrs(Tail(attrs), eq, quote)

(* open div with class="a", text hi, close div *)
DivScenario ==
    << EvStart(QName("html", n_div), <<ClassA>>), EvText(<<"h", "i">>),
       EvEnd(QName("html", n_div)) >>

(* The claim C7 as first stated: the delimiters of a disallowed element are
   literalized and the quotes of its attributes stay raw, so the scenario
   yields &lt;div class="a"&gt;hi&lt;/div&gt; *)
C7_QuotesRaw ==
    /\ (Returned("start_elem") /\ ~FoundSuppressed
            /\ call.name.local \notin ALLOWED_TAGS) =>
          call.out = EntLt \o call.name.local
                        \o LiteralAttrs(call.attrs, <<"=", "\"">>, <<"\"">>)
                        \o EntGt
    /\ trace = DivScenario =>
          writer = EntLt \o <<"d", "i", "v", " ", "c", "l", "a", "s", "s", "=", "\"",
                              "a", "\"">> \o EntGt \o <<"h", "i">>
                         \o EntLt \o <<"/", "d", "i", "v">> \o EntGt

(* C7: for a disallowed element start_elem writes &lt;, the tag name, then
   for each attribute a space, the name, = and &quot;, the value escaped in
   attribute mode and &quot;, then &gt;: the quotes are literalized with the
   angle brackets, so the scenario yields
   &lt;div class=&quot;a&quot;&gt;hi&lt;/div&gt; *)
C7_QuotesLiteralized ==
    /\ (Returned("start_elem") /\ ~FoundSuppressed
            /\ call.name.local \notin ALLOWED_TAGS) =>
          call.out = EntLt \o call.name.local
                        \o LiteralAttrs(call.attrs, <<"=">> \o EntQuot, EntQuot)
                        \o EntGt
    /\ (Returned("start_elem") /\ ~FoundSuppressed
            /\ call.name = QName("html", n_div) /\ call.attrs = <<XlinkHref>>) =>
          call.out = EntLt \o <<"d", "i", "v", " ", "x", "l", "i", "n", "k", ":",
                                "h", "r", "e", "f", "=">>
                        \o EntQuot \o EntQuot \o <<"<", "&", "a", "m", "p", ";">>
                        \o EntQuot \o EntGt
    /\ trace = DivScenario =>
          writer = EntLt \o <<"d", "i", "v", " ", "c", "l", "a", "s", "s", "=">>
                         \o EntQuot \o <<"a">> \o EntQuot \o EntGt \o <<"h", "i">>
                         \o EntLt \o <<"/", "d", "i", "v">> \o EntGt

C7_Witness ==
    /\ trace = DivScenario
    /\ call.op = "end_elem"
    /\ call.matched.out =
          EntLt \o <<"d", "i", "v", " ", "c", "l", "a", "s", "s", "=">>
                \o EntQuot \o <<"a">> \o EntQuot \o EntGt

(* open name, text t, close name, for an HTML-namespace element *)
ElemScenario(local, t) ==
    << EvStart(QName("html", local), <<>>), EvText(t), EvEnd(QName("html", local)) >>

(* The claim C8 as first stated: script and noscript are written with
   structural tags *)
C8_StructuralTags ==
    \A t \in Texts :
        /\ trace = ElemScenario(n_script, t) =>
              writer = <<"<", "s", "c", "r", "i", "p", "t", ">">> \o t
                          \o <<"<", "/", "s", "c", "r", "i", "p", "t", ">">>
        /\ (trace = ElemScenario(n_noscript, t) /\ ~opts.scripting_enabled) =>
              writer = <<"<", "n", "o", "s", "c", "r", "i", "p", "t", ">">>
                          \o Bytes(write_escaped(t, FALSE))
                          \o <<"<", "/", "n", "o", "s", "c", "r", "i", "p", "t", ">">>

(* C8: script and noscript are not allowlisted, so their tags are
   literalized: start_elem(script), write_text(t), end_elem(script) writes
   &lt;script&gt;, t verbatim, &lt;/script&gt;; with scripting disabled the
   same sequence for noscript writes &lt;noscript&gt;, t escaped in text mode,
   &lt;/noscript&gt; *)
C8_LiteralizedTags ==
    \A t \in Texts :
        /\ trace = ElemScenario(n_script, t) =>
              writer = EntLt \o <<"s", "c", "r", "i", "p", "t">> \o EntGt \o t
                          \o EntLt \o <<"/", "s", "c", "r", "i", "p", "t">> \o EntGt
        /\ (trace = ElemScenario(n_noscript, t) /\ ~opts.scripting_enabled) =>
              writer = EntLt \o <<"n", "o", "s", "c", "r", "i", "p", "t">> \o EntGt
                          \o Bytes(write_escaped(t, FALSE))
                          \o EntLt \o <<"/", "n", "o", "s", "c", "r", "i", "p", "t">>
                          \o EntGt

C8_Witness ==
    /\ trace = ElemScenario(n_script, <<"<", "b", ">">>)
    /\ call.out = EntLt \o <<"/", "s", "c", "r", "i", "p", "t">> \o EntGt
    /\ Len(writer) = 32

(* C9: with create_missing_parent no handler panics; on an empty stack
   end_elem returns normally and writes its end tag as for an entry that is
   not suppressed, start_elem writes its start tag, and write_text escapes
   its text, as under a parent with no name that is not suppressed. *)
C9_LenientNeverPanics ==
    opts.create_missing_parent =>
        /\ status = "ok"
        /\ call.result = "ok"
        /\ (call.op = "end_elem" /\ call.before = <<>>) =>
              /\ stack = <<>>
              /\ call.out = Bytes(end_elem_writes(call.name))
        /\ (call.op = "start_elem" /\ call.before = <<>>) =>
              /\ call.out = Bytes(start_elem_writes(call.name, call.attrs))
              /\ Len(stack) = 2
              /\ ~stack[1].html_name.some /\ ~stack[1].ignore_children
        /\ (call.op = "write_text" /\ call.before = <<>>) =>
              /\ call.out = Bytes(write_escaped(call.text, FALSE))
              /\ stack = <<DefaultElemInfo>>

(* Two end_elem have emptied the stack; text is then written escaped *)
C9_Witness ==
    /\ opts.create_missing_parent
    /\ Len(trace) = 3
    /\ trace[1].op = "end_elem" /\ trace[2].op = "end_elem"
    /\ Returned("write_text")
    /\ call.before = <<>>
    /\ call.out = EntLt \o <<"b">> \o EntGt

(* C10: without create_missing_parent every end_elem that closes no open
   element panics, the first one on a new serializer included. *)
C10_UnmatchedEndPanics ==
    (~opts.create_missing_parent /\ call.op = "end_elem" /\ ~call.matched.some) =>
        call.result = "panic"

EntAmp == <<"&", "a", "m", "p", ";">>
EntNbsp == <<"&", "n", "b", "s", "p", ";">>

Drop(s, n) == SubSeq(s, n + 1, Len(s))

(* The inverse entity map, applied from left to right *)
RECURSIVE unescape(_)
unescape(s) ==
    IF s = <<>> THEN <<>>
    ELSE IF StartsWith(s, EntAmp) THEN <<"&">> \o unescape(Drop(s, Len(EntAmp)))
    ELSE IF StartsWith(s, EntLt) THEN <<"<">> \o unescape(Drop(s, Len(EntLt)))
    ELSE IF StartsWith(s, EntGt) THEN <<">">> \o unescape(Drop(s, Len(EntGt)))
    ELSE IF StartsWith(s, EntNbsp) THEN <<NBSP>> \o unescape(Drop(s, Len(EntNbsp)))
    ELSE <<Head(s)>> \o unescape(Tail(s))

(* C11: text-mode escaping is invertible: decoding what write_text wrote for
   a text t under a parent that is not a raw-text element, by the inverse
   entity map, gives back t, also when t holds entity-like substrings. *)
C11_TextEscapeRoundTrip ==
    (Returned("write_text") /\ ~Top(call.before).html_name.some) =>
        unescape(call.out) = call.text

(* The text &lt; is written as &amp;lt; and decodes to itself *)
C11_Witness ==
    /\ Returned("write_text")
    /\ call.text = EntLt
    /\ call.out = EntAmp \o <<"l", "t", ";">>
    /\ unescape(call.out) = EntLt

(* C12: the seed entry fixes the escaping of top-level text: under
   ChildrenOnly(Some(root)) with root an HTML raw-text element every
   write_text at nesting depth 0 of a well-formed sequence is verbatim, also
   after children were opened and closed; under IncludeNode and
   ChildrenOnly(None) the seed has no name and such text is escaped. *)
C12_SeedFixesTopLevelText ==
    LET scope == opts.traversal_scope
    IN  /\ (scope.kind = "IncludeNode" \/ ~scope.root.some) =>
              ~stack[1].html_name.some
        /\ (Returned("write_text") /\ open = <<>>) =>
              /\ (scope.kind = "ChildrenOnly" /\ scope.root.some
                      /\ scope.root.val.ns = "html"
                      /\ scope.root.val.local \in RawTextElements) =>
                    call.out = call.text
              /\ (scope.kind = "IncludeNode" \/ ~scope.root.some) =>
                    call.out = Bytes(write_escaped(call.text, FALSE))

(* Under the root script, text after a closed div is written verbatim *)
C12_Witness ==
    /\ opts.traversal_scope = ChildrenOnly(Some(QName("html", n_script)))
    /\ trace = << EvStart(QName("html", n_div), <<>>), EvEnd(QName("html", n_div)),
                  EvText(<<"<", "b", ">">>) >>
    /\ call.out = <<"<", "b", ">">>

IsPrefix(s, t) == Len(s) <= Len(t) /\ SubSeq(t, 1, Len(s)) = s

(* C13: a failed sink write makes the handler return the failure at once,
   with no later write, and leaves the accepted bytes as they are: the sink
   content is always a prefix of what a sink that never fails would hold for
   the same events, a proper one once a write has failed. *)
C13_FailureLeavesPrefix ==
    /\ IsPrefix(writer, ideal)
    /\ status = "ok" => writer = ideal
    /\ call.result = "err" =>
          /\ status = "err"
          /\ Len(writer) < Len(ideal)
          /\ EndsWith(writer, call.out)

(* A start tag with an attribute is cut inside its attribute, after an
   earlier call was written whole *)
C13_Witness ==
    /\ call.result = "err"
    /\ call.op = "start_elem"
    /\ Len(trace) = 2
    /\ call.out = EntLt \o <<"d", "i", "v", " ", "c", "l">>
    /\ Len(writer) > Len(call.out)

(* C14: every entry of the stack, the seed included, has a name only if the
   element it stands for (for the seed, the root of ChildrenOnly(Some(root)))
   is in the HTML namespace, so an entry of another namespace never makes
   write_text write raw text. *)
C14_NamesOnlyForHtml ==
    LET scope == opts.traversal_scope
        html_root == scope.kind = "ChildrenOnly" /\ scope.root.some
                        /\ scope.root.val.ns = "html"
    IN  /\ stack[1].html_name.some => html_root
        /\ \A i \in 1..Len(open) :
              stack[i + 1].html_name.some => open[i].name.ns = "html"
        /\ (Returned("write_text") /\ open = <<>> /\ ~html_root) =>
              call.out = Bytes(write_escaped(call.text, FALSE))

(* The claim C15 as first stated: whatever the stack, a start_elem that
   returns grows it by one entry, an end_elem that returns shrinks it by
   one, and the other handlers leave it unchanged *)
C15_AlwaysByOne ==
    /\ Returned("start_elem") => Len(stack) = Len(call.before) + 1
    /\ Returned("end_elem") => Len(stack) = Len(call.before) - 1
    /\ (call.result = "ok" /\ call.op \in {"write_text", "write_comment",
            "write_doctype", "write_processing_instruction"}) =>
          stack = call.before

(* C15: on a stack that is not empty a start_elem that returns grows it by
   one entry, an end_elem that returns shrinks it by one and write_text
   leaves it unchanged; write_comment, write_doctype and
   write_processing_instruction always leave it unchanged; on an empty stack,
   which only create_missing_parent lets a handler survive, start_elem leaves
   the default parent and the element, write_text leaves the default parent
   and end_elem leaves the stack empty. *)
C15_ByOneUnlessEmpty ==
    /\ (Returned("start_elem") /\ call.before # <<>>) =>
          Len(stack) = Len(call.before) + 1
    /\ (Returned("end_elem") /\ call.before # <<>>) =>
          Len(stack) = Len(call.before) - 1
    /\ (Returned("write_text") /\ call.before # <<>>) => stack = call.before
    /\ (call.result = "ok" /\ call.op \in {"write_comment", "write_doctype",
            "write_processing_instruction"}) =>
          stack = call.before
    /\ (call.result = "ok" /\ call.before = <<>>
            /\ call.op \in {"start_elem", "end_elem", "write_text"}) =>
          /\ opts.create_missing_parent
          /\ call.op = "start_elem" =>
                /\ Len(stack) = 2
                /\ stack[1] = ElemInfo(None, FALSE, TRUE)
          /\ call.op = "write_text" => stack = <<DefaultElemInfo>>
          /\ call.op = "end_elem" => stack = <<>>

(* A start_elem on the emptied stack has left two entries *)
C15_Witness ==
    /\ opts.create_missing_parent
    /\ Returned("start_elem")
    /\ call.before = <<>>
    /\ Len(stack) = 2

(* C16: without create_missing_parent a handler panics exactly when
   start_elem, end_elem or write_text is called on an empty stack, and the
   panicking call writes nothing; write_comment, write_doctype and
   write_processing_instruction never panic. *)
C16_PanicExactlyOnEmptyStack ==
    /\ [](~opts.create_missing_parent =>
            /\ call.result = "panic" <=>
                  /\ call.op \in {"start_elem", "end_elem", "write_text"}
                  /\ call.before = <<>>
            /\ call.result = "panic" => call.out = <<>>)
    /\ [][status' = "panic" => writer' = writer]_vars

(* write_text has panicked on the stack an unmatched end_elem emptied *)
C16_Witness ==
    /\ ~opts.create_missing_parent
    /\ call.op = "write_text"
    /\ call.result = "panic"
    /\ call.before = <<>>
    /\ writer # <<>>

(* The prefix of an attribute name, by its namespace *)
ExpectedPrefix(name) ==
    CASE name.ns = "" -> <<>>
      [] name.ns = "xml" -> <<"x", "m", "l", ":">>
      [] name.ns = "xlink" -> <<"x", "l", "i", "n", "k", ":">>
      [] name.ns = "xmlns" /\ name.local = <<"x", "m", "l", "n", "s">> -> <<>>
      [] name.ns = "xmlns" /\ name.local # <<"x", "m", "l", "n", "s">> ->
            <<"x", "m", "l", "n", "s", ":">>
      [] OTHER -> <<"u", "n", "k", "n", "o", "w", "n", "_",
                    "n", "a", "m", "e", "s", "p", "a", "c", "e", ":">>

(* One character of an escaped text, by mode *)
ExpectedChar(c, attr_mode) ==
    CASE c = "&" -> EntAmp
      [] c = NBSP -> EntNbsp
      [] c = "\"" -> IF attr_mode THEN EntQuot ELSE <<c>>
      [] c = "<" -> IF attr_mode THEN <<c>> ELSE EntLt
      [] c = ">" -> IF attr_mode THEN <<c>> ELSE EntGt
      [] OTHER -> <<c>>

RECURSIVE ExpectedEscaped(_, _)
ExpectedEscaped(text, attr_mode) ==
    IF text = <<>> THEN <<>>
    ELSE ExpectedChar(Head(text), attr_mode) \o ExpectedEscaped(Tail(text), attr_mode)

(* One group per attribute, in the order given *)
RECURSIVE ExpectedGroups(_, _)
ExpectedGroups(attrs, quote) ==
    IF attrs = <<>> THEN <<>>
    ELSE <<" ">> \o ExpectedPrefix(Head(attrs).name) \o Head(attrs).name.local
            \o <<"=">> \o quote \o ExpectedEscaped(Head(attrs).value, TRUE) \o quote
            \o ExpectedGroups(Tail(attrs), quote)

(* The start tag of an element, as the claims C17 and C18 spell it *)
ExpectedStartTag(name, attrs) ==
    IF name.local \in ALLOWED_TAGS
    THEN <<"<">> \o name.local \o ExpectedGroups(attrs, <<"\"">>) \o <<">">>
    ELSE EntLt \o name.local \o ExpectedGroups(attrs, EntQuot) \o EntGt

(* C17: a start_elem that is not suppressed writes one group per attribute
   in the order given, duplicates included, each name with the prefix of its
   namespace: none, xml:, xlink:, xmlns: unless the local name is xmlns, and
   unknown_namespace: for any other namespace. *)
C17_AttributesInOrder ==
    (Returned("start_elem") /\ ~FoundSuppressed) =>
        call.out = ExpectedStartTag(call.name, call.attrs)

(* The same attribute given twice is written twice *)
C17_Witness ==
    /\ Returned("start_elem")
    /\ call.name = QName("html", n_p)
    /\ call.attrs = <<XlinkHref, XlinkHref>>
    /\ Len(call.out) = 2 + 2 * Len(ExpectedGroups(<<XlinkHref>>, <<"\"">>)) + 1

(* C18: write_escaped maps the characters one by one, in order: "&" and
   U+00A0 in both modes, the quote only in attribute mode, "<" and ">" only
   in text mode, every other character unchanged. *)
C18_EscapedByMode ==
    /\ (Returned("write_text") /\ ~Top(call.before).html_name.some) =>
          call.out = ExpectedEscaped(call.text, FALSE)
    /\ (Returned("start_elem") /\ ~FoundSuppressed /\ Len(call.attrs) = 1) =>
          LET value == ExpectedEscaped(call.attrs[1].value, TRUE)
              head  == <<" ">> \o ExpectedPrefix(call.attrs[1].name)
                          \o call.attrs[1].name.local \o <<"=">>
          IN  call.out \in
                { <<"<">> \o call.name.local \o head \o <<"\"">> \o value
                      \o <<"\"", ">">>,
                  EntLt \o call.name.local \o head \o EntQuot \o value
                      \o EntQuot \o EntGt }

(* An attribute value holding a quote, "<", ">" and "&" *)
C18_Witness ==
    /\ Returned("start_elem")
    /\ call.name = QName("html", n_p)
    /\ Len(call.attrs) = 1
    /\ call.attrs[1].value = <<"\"", "<", ">", "&">>
    /\ call.out = <<"<", "p", " ", "c", "l", "a", "s", "s", "=", "\"">>
                     \o EntQuot \o <<"<", ">">> \o EntAmp \o <<"\"", ">">>

(* C19: the bytes start_elem writes for a disallowed element hold no raw "<"
   and no raw ">", whatever the attribute values. *)
C19_NoRawAngleBrackets ==
    (Returned("start_elem") /\ ~FoundSuppressed
        /\ call.name.local \notin ALLOWED_TAGS) =>
        \A i \in 1..Len(call.out) : call.out[i] \notin {"<", ">"}

(* C20: in a well-formed sequence write_text writes its text unescaped only
   when the start tag of the innermost open element was written as markup;
   text inside an element whose tags were literalized is escaped. *)
C20_RawTextOnlyUnderMarkup ==
    (Returned("write_text") /\ open # <<>>) =>
        /\ call.out # ExpectedEscaped(call.text, FALSE) =>
              StartsWith(Top(open).out, <<"<">> \o Top(open).name.local)
        /\ StartsWith(Top(open).out, EntLt) =>
              call.out = ExpectedEscaped(call.text, FALSE)

====
